---- MODULE Spec2Model ----
(***************************************************************************)
(* The capture/annotation state machine of Capter:                         *)
(* CaptureWindow::update in src/windows/capture_window/mod.rs.             *)
(*                                                                         *)
(* One action per CaptureEvent variant.  Every action also records, in     *)
(* history variables, which event was dispatched, what the dispatch        *)
(* returned and whether it cleared the render cache.                       *)
(***************************************************************************)
EXTENDS Integers, Sequences, FiniteSets, TLC

VARIABLES
    crop_mode,        \* CropMode: <<"FullScreen">>, <<"SpecificWindow", id>>,
                      \*           <<"SelectionInProgress">>, <<"ManualSelection">>
    mode_desc,        \* String shown in Crop mode
    cursor_position,  \* Point <<x, y>>
    mode,             \* Mode: "Crop" or "Draw"
    endpoints,        \* Endpoints of the crop rectangle
    shape,            \* the template Shape; endpoints is an Option
    shapes,           \* Vec<Shape>, the committed shapes
    task,             \* what the last dispatch returned: "none" or "RequestClose"
    cache_cleared,    \* whether the last dispatch called cache.clear()
    last,             \* history: the CaptureEvent variant dispatched last
    prev_len,         \* history: shapes.len() before the last dispatch
    prev_mode,        \* history: mode before the last dispatch
    drag_trace,       \* history: events since the last SetInitialPoint, while they
                      \* follow SetInitialPoint [UpdateCurrentPosition] SetFinalPoint [Undo]
    origin,           \* history: cursor_position at that SetInitialPoint
    base,             \* history: shapes at that SetInitialPoint
    before,           \* history: crop_mode at that SetInitialPoint
    drag_open         \* history: the last drag event was a SetInitialPoint

vars == <<crop_mode, mode_desc, cursor_position, mode, endpoints, shape, shapes,
          task, cache_cleared, last, prev_len, prev_mode, drag_trace, origin, base, before,
          drag_open>>

----------------------------------------------------------------------------
(* Bounds and input sets *)

\* Cap on shapes.len() in the drawing-focused specification.
MaxShapes == 2

\* Cap on shapes.len() in the crop-focused specification.
MaxCropShapes == 0

\* Cap on shapes.len() in the style-focused specification.
MaxStyleShapes == 1

\* Cursor positions of the crop-focused specification: one point inside both
\* windows, one inside the second window only (on the right edge of the first),
\* one on the bottom edge of the second window.
CropPoints == {<<0, 0>>, <<1, 0>>, <<1, 1>>}

\* Cursor positions of the drawing-focused specification.
DrawPoints == {<<0, 0>>, <<1, 1>>}

\* Toolbar entries (shape_type, is_filled, is_solid).
CropTools == {<<"Rectangle", TRUE, TRUE>>}
DrawTools == {<<"Line", FALSE, TRUE>>}

CropStrokes == {"Thin"}
DrawStrokes == {"Broad"}

CropColors == {"Red"}
DrawColors == {"Blue"}

\* Inputs of the style-focused specification: the cursor stays where it is, the
\* toolbar offers two of each.
StylePoints == {<<0, 0>>}
StyleTools == {<<"Rectangle", TRUE, FALSE>>, <<"Arrow", FALSE, TRUE>>}
StyleStrokes == {"Thin", "Medium"}
StyleColors == {"Green", "Yellow"}

----------------------------------------------------------------------------
(* Data *)

None == <<>>
Some(v) == <<v>>

Point(x, y) == <<x, y>>

Endpoints(initial_pt, final_pt) == [initial_pt |-> initial_pt, final_pt |-> final_pt]

FullScreen == <<"FullScreen">>
SpecificWindow(id) == <<"SpecificWindow", id>>
SelectionInProgress == <<"SelectionInProgress">>
ManualSelection == <<"ManualSelection">>

\* The window catalog, in insertion order.  The first window lies inside the
\* second one; the identifiers are not in insertion order.
windows ==
    << [id |-> 7, x |-> 0, y |-> 0, width |-> 1, height |-> 1, name |-> "A"],
       [id |-> 3, x |-> 0, y |-> 0, width |-> 2, height |-> 1, name |-> "B"] >>

Min(a, b) == IF a <= b THEN a ELSE b
Max(a, b) == IF a <= b THEN b ELSE a

\* Endpoints::normalize: (min corner, max corner).
normalize(e) ==
    << Point(Min(e.initial_pt[1], e.final_pt[1]), Min(e.initial_pt[2], e.final_pt[2])),
       Point(Max(e.initial_pt[1], e.final_pt[1]), Max(e.initial_pt[2], e.final_pt[2])) >>

\* Variant of contains: a closed range start..=end.
contains_closed(start, end, v) == start <= v /\ v <= end

\* Range::contains of the range start..end
contains(start, end, v) == start <= v /\ v < end

top_left(window) == Point(window.x, window.y)
bottom_right(window) == Point(window.x + window.width, window.y + window.height)

hit(window, p) ==
    /\ contains(top_left(window)[1], bottom_right(window)[1], p[1])
    /\ contains(top_left(window)[2], bottom_right(window)[2], p[2])

\* Iterator::find_map over self.windows.iter(), from position i on.
RECURSIVE find_map_from(_, _)
find_map_from(i, p) ==
    IF i > Len(windows) THEN None
    ELSE IF hit(windows[i], p) THEN Some(windows[i])
    ELSE find_map_from(i + 1, p)

find_map(p) == find_map_from(1, p)

\* Variant of pop: removes the first element.
pop_front(v) == IF v = <<>> THEN <<>> ELSE SubSeq(v, 2, Len(v))

\* Vec::pop: the vector without its last element; an empty vector stays empty.
pop(v) == IF v = <<>> THEN <<>> ELSE SubSeq(v, 1, Len(v) - 1)

\* format!("{} x {}", size.x as u32, size.y as u32)
size_desc(e) ==
    LET n == normalize(e)
    IN ToString(n[2][1] - n[1][1]) \o " x " \o ToString(n[2][2] - n[1][2])

----------------------------------------------------------------------------
(* History *)

B == "SetInitialPoint"
M == "UpdateCurrentPosition"
E == "SetFinalPoint"
U == "Undo"

NextTrace(ev) ==
    IF ev = B THEN <<B>>
    ELSE IF ev = M /\ drag_trace = <<B>> THEN <<B, M>>
    ELSE IF ev = E /\ drag_trace \in {<<B>>, <<B, M>>} THEN Append(drag_trace, E)
    ELSE IF ev = U /\ drag_trace = <<B, M, E>> THEN <<B, M, E, U>>
    ELSE <<>>

Track(ev, ret, cleared) ==
    /\ last' = ev
    /\ task' = ret
    /\ cache_cleared' = cleared
    /\ prev_len' = Len(shapes)
    /\ prev_mode' = mode
    /\ drag_trace' = NextTrace(ev)
    /\ origin' = IF NextTrace(ev) = <<>> THEN Point(0, 0)
                 ELSE IF ev = B THEN cursor_position ELSE origin
    /\ base' = IF NextTrace(ev) = <<>> THEN <<>>
               ELSE IF ev = B THEN shapes ELSE base
    /\ before' = IF NextTrace(ev) = <<>> THEN FullScreen
                 ELSE IF ev = B THEN crop_mode ELSE before
    /\ drag_open' = IF ev = B THEN TRUE ELSE IF ev = E THEN FALSE ELSE drag_open

----------------------------------------------------------------------------
(* CaptureWindow::update, one action per CaptureEvent *)

\* Variant of Undo: removing a shape does not clear the cache.
Undo_NoClear ==
    /\ IF mode = "Draw"
       THEN /\ shapes' = pop(shapes)
            /\ UNCHANGED crop_mode
       ELSE /\ crop_mode' = FullScreen
            /\ UNCHANGED shapes
    /\ UNCHANGED <<mode_desc, cursor_position, mode, endpoints, shape>>
    /\ Track("Undo", "none", FALSE)

\* Variant of Undo: in Crop mode only a manual selection is undone.
Undo_KeepWindow ==
    /\ IF mode = "Draw"
       THEN /\ shapes' = pop(shapes)
            /\ UNCHANGED crop_mode
       ELSE /\ crop_mode' = IF crop_mode[1] = "SpecificWindow" THEN crop_mode ELSE FullScreen
            /\ UNCHANGED shapes
    /\ UNCHANGED <<mode_desc, cursor_position, mode, endpoints, shape>>
    /\ Track("Undo", "none", mode = "Draw")

Undo ==
    /\ IF mode = "Draw"
       THEN /\ shapes' = pop(shapes)
            /\ UNCHANGED crop_mode
       ELSE /\ crop_mode' = FullScreen
            /\ UNCHANGED shapes
    /\ UNCHANGED <<mode_desc, cursor_position, mode, endpoints, shape>>
    /\ Track("Undo", "none", mode = "Draw")

\* Variant of Done: Crop goes on to Draw, Draw closes.
Done_CropToDraw ==
    /\ IF mode = "Draw"
       THEN /\ UNCHANGED mode
            /\ Track("Done", "RequestClose", FALSE)
       ELSE /\ mode' = "Draw"
            /\ Track("Done", "none", FALSE)
    /\ UNCHANGED <<crop_mode, mode_desc, cursor_position, endpoints, shape, shapes>>

\* Variant of Done: leaving Draw commits the shape being dragged.
Done_Commit ==
    /\ IF mode = "Draw"
       THEN /\ mode' = "Crop"
            /\ shapes' = IF shape.endpoints # None THEN Append(shapes, shape) ELSE shapes
            /\ Track("Done", "none", shape.endpoints # None)
       ELSE /\ UNCHANGED <<mode, shapes>>
            /\ Track("Done", "RequestClose", FALSE)
    /\ UNCHANGED <<crop_mode, mode_desc, cursor_position, endpoints, shape>>

Done ==
    /\ IF mode = "Draw"
       THEN /\ mode' = "Crop"
            /\ Track("Done", "none", FALSE)
       ELSE /\ UNCHANGED mode
            /\ Track("Done", "RequestClose", FALSE)
    /\ UNCHANGED <<crop_mode, mode_desc, cursor_position, endpoints, shape, shapes>>

\* Variant of Cancel: in Draw mode drops only the last shape.
Cancel_PopOne ==
    /\ IF mode = "Draw"
       THEN /\ shapes' = pop(shapes)
            /\ mode' = "Crop"
            /\ Track("Cancel", "none", TRUE)
       ELSE /\ UNCHANGED <<shapes, mode>>
            /\ Track("Cancel", "RequestClose", FALSE)
    /\ UNCHANGED <<crop_mode, mode_desc, cursor_position, endpoints, shape>>

\* Variant of Cancel: in Crop mode also resets the selection.
Cancel_ResetCrop ==
    /\ IF mode = "Draw"
       THEN /\ shapes' = <<>>
            /\ mode' = "Crop"
            /\ UNCHANGED crop_mode
            /\ Track("Cancel", "none", TRUE)
       ELSE /\ crop_mode' = FullScreen
            /\ UNCHANGED <<shapes, mode>>
            /\ Track("Cancel", "RequestClose", FALSE)
    /\ UNCHANGED <<mode_desc, cursor_position, endpoints, shape>>

Cancel ==
    /\ IF mode = "Draw"
       THEN /\ shapes' = <<>>
            /\ mode' = "Crop"
            /\ Track("Cancel", "none", TRUE)
       ELSE /\ UNCHANGED <<shapes, mode>>
            /\ Track("Cancel", "RequestClose", FALSE)
    /\ UNCHANGED <<crop_mode, mode_desc, cursor_position, endpoints, shape>>

ChooseShapeType(shape_type, is_filled, is_solid) ==
    /\ shape' = [shape EXCEPT !.endpoints = None,
                              !.shape_type = shape_type,
                              !.is_filled = is_filled,
                              !.is_solid = is_solid]
    /\ mode' = "Draw"
    /\ UNCHANGED <<crop_mode, mode_desc, cursor_position, endpoints, shapes>>
    /\ Track("ChooseShapeType", "none", FALSE)

\* Variant of ChangeStroke: the committed shapes take the new stroke too.
ChangeStroke_Restyle(stroke_width) ==
    /\ shape' = [shape EXCEPT !.stroke_width = stroke_width]
    /\ shapes' = [i \in 1..Len(shapes) |-> [shapes[i] EXCEPT !.stroke_width = stroke_width]]
    /\ UNCHANGED <<crop_mode, mode_desc, cursor_position, mode, endpoints>>
    /\ Track("ChangeStroke", "none", FALSE)

ChangeStroke(stroke_width) ==
    /\ shape' = [shape EXCEPT !.stroke_width = stroke_width]
    /\ UNCHANGED <<crop_mode, mode_desc, cursor_position, mode, endpoints, shapes>>
    /\ Track("ChangeStroke", "none", FALSE)

ChangeColor(color) ==
    /\ shape' = [shape EXCEPT !.color = color]
    /\ UNCHANGED <<crop_mode, mode_desc, cursor_position, mode, endpoints, shapes>>
    /\ Track("ChangeColor", "none", FALSE)

\* Variant of SetInitialPoint: in Crop mode the rectangle is not anchored at the cursor.
SetInitialPoint_NoAnchor ==
    /\ IF mode = "Draw"
       THEN /\ shape' = [shape EXCEPT !.endpoints =
                            Some(Endpoints(cursor_position, cursor_position))]
            /\ UNCHANGED crop_mode
       ELSE /\ crop_mode' = SelectionInProgress
            /\ UNCHANGED shape
    /\ UNCHANGED <<mode_desc, cursor_position, mode, shapes, endpoints>>
    /\ Track("SetInitialPoint", "none", FALSE)

SetInitialPoint ==
    /\ IF mode = "Draw"
       THEN /\ shape' = [shape EXCEPT !.endpoints =
                            Some(Endpoints(cursor_position, cursor_position))]
            /\ UNCHANGED <<crop_mode, endpoints>>
       ELSE /\ crop_mode' = SelectionInProgress
            /\ endpoints' = Endpoints(cursor_position, cursor_position)
            /\ UNCHANGED shape
    /\ UNCHANGED <<mode_desc, cursor_position, mode, shapes>>
    /\ Track("SetInitialPoint", "none", FALSE)

\* Variant of UpdateCurrentPosition: a hit test that matches no window keeps the
\* selection as it was.
UpdateCurrentPosition_KeepOnMiss(final_pt) ==
    /\ cursor_position' = final_pt
    /\ IF mode = "Draw"
       THEN /\ shape' = IF shape.endpoints # None
                        THEN [shape EXCEPT !.endpoints =
                                 Some(Endpoints(shape.endpoints[1].initial_pt, final_pt))]
                        ELSE shape
            /\ UNCHANGED <<crop_mode, mode_desc, endpoints>>
       ELSE IF crop_mode = FullScreen \/ crop_mode[1] = "SpecificWindow"
       THEN LET window == find_map(final_pt)
            IN /\ IF window # None
                  THEN /\ endpoints' = Endpoints(top_left(window[1]), bottom_right(window[1]))
                       /\ crop_mode' = SpecificWindow(window[1].id)
                       /\ mode_desc' = window[1].name
                  ELSE UNCHANGED <<crop_mode, mode_desc, endpoints>>
               /\ UNCHANGED shape
       ELSE IF crop_mode = SelectionInProgress
       THEN /\ endpoints' = [endpoints EXCEPT !.final_pt = final_pt]
            /\ mode_desc' = size_desc(endpoints')
            /\ UNCHANGED <<crop_mode, shape>>
       ELSE UNCHANGED <<crop_mode, mode_desc, endpoints, shape>>
    /\ UNCHANGED <<mode, shapes>>
    /\ Track("UpdateCurrentPosition", "none", FALSE)

\* Variant of UpdateCurrentPosition: the window hit test also runs in Draw mode.
UpdateCurrentPosition_SnapInDraw(final_pt) ==
    /\ cursor_position' = final_pt
    /\ shape' = IF mode = "Draw" /\ shape.endpoints # None
                THEN [shape EXCEPT !.endpoints =
                         Some(Endpoints(shape.endpoints[1].initial_pt, final_pt))]
                ELSE shape
    /\ IF crop_mode = FullScreen \/ crop_mode[1] = "SpecificWindow"
       THEN LET window == find_map(final_pt)
            IN IF window # None
               THEN /\ endpoints' = Endpoints(top_left(window[1]), bottom_right(window[1]))
                    /\ crop_mode' = SpecificWindow(window[1].id)
                    /\ mode_desc' = window[1].name
               ELSE /\ crop_mode' = FullScreen
                    /\ mode_desc' = "FullScreen"
                    /\ UNCHANGED endpoints
       ELSE IF crop_mode = SelectionInProgress /\ mode = "Crop"
       THEN /\ endpoints' = [endpoints EXCEPT !.final_pt = final_pt]
            /\ mode_desc' = size_desc(endpoints')
            /\ UNCHANGED crop_mode
       ELSE UNCHANGED <<crop_mode, mode_desc, endpoints>>
    /\ UNCHANGED <<mode, shapes>>
    /\ Track("UpdateCurrentPosition", "none", FALSE)

UpdateCurrentPosition(final_pt) ==
    /\ cursor_position' = final_pt
    /\ IF mode = "Draw"
       THEN /\ shape' = IF shape.endpoints # None
                        THEN [shape EXCEPT !.endpoints =
                                 Some(Endpoints(shape.endpoints[1].initial_pt, final_pt))]
                        ELSE shape
            /\ UNCHANGED <<crop_mode, mode_desc, endpoints>>
       ELSE IF crop_mode = FullScreen \/ crop_mode[1] = "SpecificWindow"
       THEN LET window == find_map(final_pt)
            IN /\ IF window # None
                  THEN /\ endpoints' = Endpoints(top_left(window[1]), bottom_right(window[1]))
                       /\ crop_mode' = SpecificWindow(window[1].id)
                       /\ mode_desc' = window[1].name
                  ELSE /\ crop_mode' = FullScreen
                       /\ mode_desc' = "FullScreen"
                       /\ UNCHANGED endpoints
               /\ UNCHANGED shape
       ELSE IF crop_mode = SelectionInProgress
       THEN /\ endpoints' = [endpoints EXCEPT !.final_pt = final_pt]
            /\ mode_desc' = size_desc(endpoints')
            /\ UNCHANGED <<crop_mode, shape>>
       ELSE UNCHANGED <<crop_mode, mode_desc, endpoints, shape>>
    /\ UNCHANGED <<mode, shapes>>
    /\ Track("UpdateCurrentPosition", "none", FALSE)

\* Variant of SetFinalPoint: in Crop mode every release commits a manual selection.
SetFinalPoint_NoCollapse ==
    /\ IF mode = "Draw"
       THEN /\ IF shape.endpoints # None
               THEN /\ shapes' = Append(shapes, shape)
                    /\ Track("SetFinalPoint", "none", TRUE)
               ELSE /\ UNCHANGED shapes
                    /\ Track("SetFinalPoint", "none", FALSE)
            /\ shape' = [shape EXCEPT !.endpoints = None]
            /\ UNCHANGED <<crop_mode, endpoints>>
       ELSE /\ endpoints' = [endpoints EXCEPT !.final_pt = cursor_position]
            /\ crop_mode' = ManualSelection
            /\ UNCHANGED <<shape, shapes>>
            /\ Track("SetFinalPoint", "none", FALSE)
    /\ UNCHANGED <<mode_desc, cursor_position, mode>>

\* Variant of SetFinalPoint: the committed shape goes below the others.
SetFinalPoint_Prepend ==
    /\ IF mode = "Draw"
       THEN /\ IF shape.endpoints # None
               THEN /\ shapes' = <<shape>> \o shapes
                    /\ Track("SetFinalPoint", "none", TRUE)
               ELSE /\ UNCHANGED shapes
                    /\ Track("SetFinalPoint", "none", FALSE)
            /\ shape' = [shape EXCEPT !.endpoints = None]
            /\ UNCHANGED <<crop_mode, endpoints>>
       ELSE /\ IF endpoints.initial_pt # cursor_position
               THEN /\ endpoints' = [endpoints EXCEPT !.final_pt = cursor_position]
                    /\ crop_mode' = ManualSelection
               ELSE /\ crop_mode' = FullScreen
                    /\ UNCHANGED endpoints
            /\ UNCHANGED <<shape, shapes>>
            /\ Track("SetFinalPoint", "none", FALSE)
    /\ UNCHANGED <<mode_desc, cursor_position, mode>>

\* Variant of SetFinalPoint: in Draw mode the template is pushed whether or not
\* it has endpoints.
SetFinalPoint_PushAlways ==
    /\ IF mode = "Draw"
       THEN /\ shapes' = Append(shapes, shape)
            /\ Track("SetFinalPoint", "none", TRUE)
            /\ shape' = [shape EXCEPT !.endpoints = None]
            /\ UNCHANGED <<crop_mode, endpoints>>
       ELSE /\ IF endpoints.initial_pt # cursor_position
               THEN /\ endpoints' = [endpoints EXCEPT !.final_pt = cursor_position]
                    /\ crop_mode' = ManualSelection
               ELSE /\ crop_mode' = FullScreen
                    /\ UNCHANGED endpoints
            /\ UNCHANGED <<shape, shapes>>
            /\ Track("SetFinalPoint", "none", FALSE)
    /\ UNCHANGED <<mode_desc, cursor_position, mode>>

SetFinalPoint ==
    /\ IF mode = "Draw"
       THEN /\ IF shape.endpoints # None
               THEN /\ shapes' = Append(shapes, shape)
                    /\ Track("SetFinalPoint", "none", TRUE)
               ELSE /\ UNCHANGED shapes
                    /\ Track("SetFinalPoint", "none", FALSE)
            /\ shape' = [shape EXCEPT !.endpoints = None]
            /\ UNCHANGED <<crop_mode, endpoints>>
       ELSE /\ IF endpoints.initial_pt # cursor_position
               THEN /\ endpoints' = [endpoints EXCEPT !.final_pt = cursor_position]
                    /\ crop_mode' = ManualSelection
               ELSE /\ crop_mode' = FullScreen
                    /\ UNCHANGED endpoints
            /\ UNCHANGED <<shape, shapes>>
            /\ Track("SetFinalPoint", "none", FALSE)
    /\ UNCHANGED <<mode_desc, cursor_position, mode>>

----------------------------------------------------------------------------
(* Specifications *)

\* The state after construction, with the template's style drawn from the inputs.
InitOver(tools, strokes, colors) ==
    /\ crop_mode = FullScreen
    /\ mode_desc = "FullScreen"
    /\ cursor_position = Point(0, 0)
    /\ mode = "Crop"
    /\ endpoints = Endpoints(Point(0, 0), Point(0, 0))
    /\ \E t \in tools, s \in strokes, c \in colors :
          shape = [shape_type |-> t[1], is_filled |-> t[2], is_solid |-> t[3],
                   stroke_width |-> s, color |-> c, endpoints |-> None]
    /\ shapes = <<>>
    /\ task = "none"
    /\ cache_cleared = FALSE
    /\ last = "none"
    /\ prev_len = 0
    /\ prev_mode = "Crop"
    /\ drag_trace = <<>>
    /\ origin = Point(0, 0)
    /\ base = <<>>
    /\ before = FullScreen
    /\ drag_open = FALSE

Init == InitOver(DrawTools, DrawStrokes, DrawColors)
InitCrop == InitOver(CropTools, CropStrokes, CropColors)
InitStyle == InitOver(StyleTools, StyleStrokes, StyleColors)

Next ==
    \/ Undo
    \/ Done
    \/ Cancel
    \/ \E t \in DrawTools : ChooseShapeType(t[1], t[2], t[3])
    \/ \E s \in DrawStrokes : ChangeStroke(s)
    \/ \E c \in DrawColors : ChangeColor(c)
    \/ SetInitialPoint
    \/ \E p \in DrawPoints : UpdateCurrentPosition(p)
    \/ SetFinalPoint /\ Len(shapes') <= MaxShapes

NextCrop ==
    \/ Undo
    \/ Done
    \/ Cancel
    \/ \E t \in CropTools : ChooseShapeType(t[1], t[2], t[3])
    \/ \E s \in CropStrokes : ChangeStroke(s)
    \/ \E c \in CropColors : ChangeColor(c)
    \/ SetInitialPoint
    \/ \E p \in CropPoints : UpdateCurrentPosition(p)
    \/ SetFinalPoint /\ Len(shapes') <= MaxCropShapes

NextStyle ==
    \/ Undo
    \/ Done
    \/ Cancel
    \/ \E t \in StyleTools : ChooseShapeType(t[1], t[2], t[3])
    \/ \E s \in StyleStrokes : ChangeStroke(s)
    \/ \E c \in StyleColors : ChangeColor(c)
    \/ SetInitialPoint
    \/ \E p \in StylePoints : UpdateCurrentPosition(p)
    \/ SetFinalPoint /\ Len(shapes') <= MaxStyleShapes

\* The drawing-focused specification.
Spec == Init /\ [][Next]_vars

\* The crop-focused specification.
SpecCrop == InitCrop /\ [][NextCrop]_vars

\* The style-focused specification.
SpecStyle == InitStyle /\ [][NextStyle]_vars

----------------------------------------------------------------------------
(* Properties *)

\* C1 (as stated): a Done dispatched in Crop mode makes the Mode Draw and returns
\* no close command.
C1_DoneInCropEntersDraw ==
    [][(last' = "Done" /\ mode = "Crop") => (mode' = "Draw" /\ task' = "none")]_vars

\* C1 (amended): a Done dispatched in Crop mode leaves the Mode Crop and returns
\* the close command.
C1_DoneInCropCloses ==
    [][(last' = "Done" /\ mode = "Crop") => (mode' = "Crop" /\ task' = "RequestClose")]_vars

C1_Witness == last = "Done" /\ task = "RequestClose" /\ mode = "Crop"

\* C2 (as stated): a Done dispatched in Draw mode returns the close command and
\* leaves the committed shapes as they were.
C2_DoneInDrawCloses ==
    [][(last' = "Done" /\ mode = "Draw") => (task' = "RequestClose" /\ shapes' = shapes)]_vars

\* C2 (amended): a Done dispatched in Draw mode returns no close command, makes
\* the Mode Crop and leaves the committed shapes as they were: a shape being
\* dragged is not appended.
C2_DoneInDrawReturnsToCrop ==
    [][(last' = "Done" /\ mode = "Draw")
          => (task' = "none" /\ mode' = "Crop" /\ shapes' = shapes)]_vars

C2_Witness ==
    /\ last = "Done" /\ task = "none" /\ mode = "Crop"
    /\ shape.endpoints # None
    /\ Len(shapes) = 1

\* C3: a Cancel dispatched in Draw mode empties the shapes, makes the Mode Crop,
\* clears the cache and returns no close command, however many shapes there were;
\* an Undo in Draw mode on a non-empty list removes exactly the last shape.
C3_CancelClearsAll ==
    [][/\ (last' = "Cancel" /\ mode = "Draw")
            => (shapes' = <<>> /\ mode' = "Crop" /\ cache_cleared' /\ task' = "none")
       /\ (last' = "Undo" /\ mode = "Draw" /\ shapes # <<>>)
            => /\ Len(shapes') = Len(shapes) - 1
               /\ \A i \in 1..Len(shapes') : shapes'[i] = shapes[i]]_vars

C3_Witness ==
    /\ last = "Cancel" /\ task = "none" /\ cache_cleared
    /\ prev_len >= 2
    /\ shapes = <<>> /\ mode = "Crop"

\* C4: a Cancel dispatched in Crop mode returns the close command and changes
\* neither crop_mode, the crop endpoints nor the shapes.
C4_CancelInCropCloses ==
    [][(last' = "Cancel" /\ mode = "Crop")
          => (task' = "RequestClose" /\ UNCHANGED <<crop_mode, endpoints, shapes>>)]_vars

C4_Witness ==
    /\ last = "Cancel" /\ task = "RequestClose"
    /\ crop_mode = ManualSelection
    /\ shapes # <<>>

\* C5: in Draw mode a drag (SetInitialPoint, UpdateCurrentPosition, SetFinalPoint)
\* makes the shapes one longer, the shapes before the drag being its prefix; an Undo
\* right after it gives back the shapes as they were before the drag; an Undo on
\* empty shapes leaves them empty.
C5_DragThenUndo ==
    /\ (mode = "Draw" /\ drag_trace = <<B, M, E>>)
          => /\ Len(shapes) = Len(base) + 1
             /\ SubSeq(shapes, 1, Len(base)) = base
    /\ (mode = "Draw" /\ drag_trace = <<B, M, E, U>>) => shapes = base
    /\ (last = "Undo" /\ prev_len = 0) => shapes = <<>>

C5_Witness ==
    /\ mode = "Draw" /\ drag_trace = <<B, M, E, U>>
    /\ Len(base) = 1 /\ shapes = base
    /\ prev_len = 2

\* C6: in Crop mode a SetInitialPoint followed by a SetFinalPoint with the cursor
\* still at the point of the SetInitialPoint leaves crop_mode FullScreen, whatever
\* crop_mode was before.
C6_ZeroDragCollapses ==
    (/\ mode = "Crop"
     /\ drag_trace \in {<<B, E>>, <<B, M, E>>}
     /\ cursor_position = origin)
        => crop_mode = FullScreen

C6_Witness ==
    /\ mode = "Crop" /\ drag_trace = <<B, E>> /\ cursor_position = origin
    /\ before = ManualSelection
    /\ crop_mode = FullScreen

\* C7: in Crop mode SetInitialPoint with the cursor at p, UpdateCurrentPosition(q)
\* with q # p, then SetFinalPoint gives ManualSelection with the endpoints (p, q),
\* whose normalized rectangle is (min corner, max corner) of p and q.
C7_ManualSelectionCommit ==
    (/\ mode = "Crop"
     /\ drag_trace = <<B, M, E>>
     /\ cursor_position # origin)
        => /\ crop_mode = ManualSelection
           /\ endpoints.initial_pt = origin
           /\ endpoints.final_pt = cursor_position
           /\ normalize(endpoints) =
                 << <<Min(origin[1], cursor_position[1]), Min(origin[2], cursor_position[2])>>,
                    <<Max(origin[1], cursor_position[1]), Max(origin[2], cursor_position[2])>> >>

C7_Witness ==
    /\ mode = "Crop" /\ drag_trace = <<B, M, E>>
    /\ origin = <<1, 1>> /\ cursor_position = <<0, 0>>
    /\ crop_mode = ManualSelection

\* The half-open bounds [x, x+width) x [y, y+height) of a window contain p.
InBounds(w, p) ==
    /\ w.x <= p[1] /\ p[1] < w.x + w.width
    /\ w.y <= p[2] /\ p[2] < w.y + w.height

\* The positions in the catalog of the first window whose bounds contain p.
FirstContaining(p) ==
    {i \in 1..Len(windows) :
        InBounds(windows[i], p) /\ \A j \in 1..(i - 1) : ~InBounds(windows[j], p)}

\* C8: in Crop mode with crop_mode FullScreen or SpecificWindow, an
\* UpdateCurrentPosition(p) sets crop_mode to SpecificWindow(id) of the first window
\* in insertion order whose half-open bounds contain p, and the crop endpoints to
\* that window's bounds.
C8_WindowSnap ==
    [][(/\ last' = M
        /\ mode = "Crop"
        /\ crop_mode[1] \in {"FullScreen", "SpecificWindow"})
          => \A i \in FirstContaining(cursor_position') :
                /\ crop_mode' = <<"SpecificWindow", windows[i].id>>
                /\ endpoints' =
                      [initial_pt |-> <<windows[i].x, windows[i].y>>,
                       final_pt |-> <<windows[i].x + windows[i].width,
                                      windows[i].y + windows[i].height>>]]_vars

\* The cursor is on the right edge of the first window, inside the second.
C8_Witness ==
    /\ last = M /\ mode = "Crop"
    /\ cursor_position = <<1, 0>>
    /\ crop_mode = <<"SpecificWindow", 3>>
    /\ endpoints = [initial_pt |-> <<0, 0>>, final_pt |-> <<2, 1>>]

\* C9: whenever crop_mode is SpecificWindow(id), id identifies a window of the
\* catalog; a hit test that matches no window sets crop_mode to FullScreen and
\* mode_desc to "FullScreen".
C9_NoDanglingWindow ==
    /\ [](crop_mode[1] = "SpecificWindow"
             => \E i \in 1..Len(windows) : windows[i].id = crop_mode[2])
    /\ [][(/\ last' = M
           /\ mode = "Crop"
           /\ crop_mode[1] \in {"FullScreen", "SpecificWindow"}
           /\ FirstContaining(cursor_position') = {})
             => (crop_mode' = FullScreen /\ mode_desc' = "FullScreen")]_vars

C9_Witness ==
    /\ last = M /\ mode = "Crop"
    /\ cursor_position = <<1, 1>>
    /\ crop_mode = FullScreen /\ mode_desc = "FullScreen"
    /\ endpoints = [initial_pt |-> <<0, 0>>, final_pt |-> <<2, 1>>]

\* C10: the template's endpoints are None unless the last drag event was a
\* SetInitialPoint; they are None after every SetFinalPoint, and after every Done
\* or Cancel that leaves Draw mode.
C10_TemplateOnlyWhileDragging ==
    /\ shape.endpoints # None => drag_open
    /\ last = E => shape.endpoints = None
    /\ (last \in {"Done", "Cancel"} /\ task = "none") => shape.endpoints = None

\* C11 (as stated): the Mode changes from Crop to Draw only in a step that
\* dispatches Done.
C11_OnlyDoneEntersDraw ==
    [][(mode = "Crop" /\ mode' = "Draw") => last' = "Done"]_vars

\* C11 (amended): the Mode changes from Crop to Draw only in a step that
\* dispatches ChooseShapeType; no other event dispatched in Crop mode (Done,
\* ChangeStroke, ChangeColor, SetInitialPoint, UpdateCurrentPosition,
\* SetFinalPoint, Undo, Cancel) leaves the Mode Draw.
C11_OnlyChooseShapeTypeEntersDraw ==
    [][(mode = "Crop" /\ mode' = "Draw") => last' = "ChooseShapeType"]_vars

C11_Witness ==
    /\ last = "ChooseShapeType" /\ prev_mode = "Crop" /\ mode = "Draw"
    /\ crop_mode = ManualSelection

\* v is u cut after some of its first elements (u itself included).
IsPrefix(v, u) == Len(v) <= Len(u) /\ \A i \in 1..Len(v) : v[i] = u[i]

\* C12: in every step the shapes after it are the shapes before it, or those with
\* one shape appended at the end, or a prefix of them: no step reorders the
\* shapes, inserts before the end or alters a shape of the list.
C12_ShapesOnlyPushedAndPopped ==
    [][\/ shapes' = shapes
       \/ (Len(shapes') = Len(shapes) + 1 /\ IsPrefix(shapes, shapes'))
       \/ IsPrefix(shapes', shapes)]_vars

\* A second, different shape has been committed on top of the first.
C12_Witness ==
    /\ last = E /\ prev_len = 1 /\ Len(shapes) = 2
    /\ shapes[1] # shapes[2]

\* C13: every step that changes the committed shapes clears the render cache.
C13_ShapeChangeClearsCache ==
    [][shapes' # shapes => cache_cleared']_vars

C13_Witness ==
    /\ last = "Undo" /\ prev_len = 2 /\ Len(shapes) = 1
    /\ cache_cleared

\* C14: ChangeStroke changes nothing but the template's stroke_width and
\* ChangeColor nothing but the template's color: the committed shapes, the
\* template's other fields, the Mode, crop_mode, the crop endpoints and the cursor
\* stay as they were, and no close command is returned.
C14_StyleEventsTouchOnlyTheTemplateStyle ==
    [][/\ last' = "ChangeStroke"
            => /\ shape' = [shape EXCEPT !.stroke_width = shape'.stroke_width]
               /\ UNCHANGED <<shapes, mode, crop_mode, endpoints, cursor_position>>
               /\ task' = "none"
       /\ last' = "ChangeColor"
            => /\ shape' = [shape EXCEPT !.color = shape'.color]
               /\ UNCHANGED <<shapes, mode, crop_mode, endpoints, cursor_position>>
               /\ task' = "none"]_vars

\* The stroke was changed during a drag, after a shape with the other stroke and
\* the other color was committed.
C14_Witness ==
    /\ last = "ChangeStroke" /\ mode = "Draw"
    /\ shape.endpoints # None
    /\ Len(shapes) = 1
    /\ shapes[1].stroke_width # shape.stroke_width
    /\ shapes[1].color # shape.color

\* C15: an Undo dispatched in Crop mode leaves crop_mode FullScreen whatever it
\* was, leaves the shapes as they were and returns no close command.
C15_UndoInCropResetsSelection ==
    [][(last' = "Undo" /\ mode = "Crop")
          => (crop_mode' = FullScreen /\ shapes' = shapes /\ task' = "none")]_vars

\* The Undo follows a committed manual selection, with shapes on the list.
C15_Witness ==
    /\ mode = "Crop" /\ drag_trace = <<B, M, E, U>> /\ cursor_position # origin
    /\ crop_mode = FullScreen
    /\ shapes # <<>>
    /\ task = "none"

\* C16: whenever the Mode is Crop and crop_mode is FullScreen, mode_desc is
\* "FullScreen".
C16_DescriptionFollowsFullScreen ==
    (mode = "Crop" /\ crop_mode = FullScreen) => mode_desc = "FullScreen"

\* C17: every committed shape has endpoints; a SetFinalPoint in Draw mode on a
\* template without endpoints appends nothing.
C17_CommittedShapesHaveEndpoints ==
    /\ \A i \in 1..Len(shapes) : shapes[i].endpoints # None
    /\ (last = E /\ mode = "Draw" /\ ~cache_cleared) => Len(shapes) = prev_len

\* A SetFinalPoint in Draw mode that followed no SetInitialPoint, with a shape
\* on the list.
C17_Witness ==
    /\ last = E /\ mode = "Draw"
    /\ ~drag_open /\ drag_trace = <<>>
    /\ prev_len = 1 /\ Len(shapes) = 1
    /\ shapes[1].endpoints # None

\* C18: crop_mode becomes ManualSelection only in a step that starts with
\* crop_mode SelectionInProgress.
C18_ManualSelectionOnlyFromDrag ==
    [][(crop_mode' = ManualSelection /\ crop_mode # ManualSelection)
          => crop_mode = SelectionInProgress]_vars

\* C19: whenever the Mode is Draw, crop_mode is not SelectionInProgress.
C19_NoHalfDragInDraw ==
    mode = "Draw" => crop_mode # SelectionInProgress

\* C20: SetInitialPoint, UpdateCurrentPosition, SetFinalPoint, Undo,
\* ChooseShapeType, ChangeStroke and ChangeColor dispatched in Draw mode leave
\* crop_mode and the crop endpoints as they were; no event dispatched in Crop mode
\* changes the committed shapes.
C20_ModesKeepToTheirOwnState ==
    [][/\ (mode = "Draw" /\ last' \notin {"Done", "Cancel"})
            => UNCHANGED <<crop_mode, endpoints>>
       /\ mode = "Crop" => shapes' = shapes]_vars

\* The cursor was moved in Draw mode, during a drag, off the window the crop
\* selection is snapped to.
C20_Witness ==
    /\ last = M /\ mode = "Draw"
    /\ shape.endpoints # None
    /\ cursor_position = <<1, 1>>
    /\ crop_mode = <<"SpecificWindow", 7>>
    /\ endpoints = [initial_pt |-> <<0, 0>>, final_pt |-> <<1, 1>>]

====
